---- MODULE Spec2Model ----
(***************************************************************************)
(* University verifiable-credential service (EAMIN-SHANTO/VC-creation).    *)
(*                                                                         *)
(* State: the files under .storage (issuer-key.json and one record file    *)
(* per student id), the in-memory Veramo agent of the running process, the *)
(* wall clock, and the progress of a batch-issue.js run.  One action per   *)
(* exported operation: setupAgent, getFixedIssuer, didManagerCreate,       *)
(* issueStudentCredential, verifyStudentCredential, updateVCStatus, and    *)
(* the steps of batchIssue; further specifications cover getOrCreateIssuer,*)
(* the commands of issue.js and cli.js, calls that overlap in two          *)
(* processes, studentIds that hold path characters, and the pure helpers   *)
(* of helpers.js on arguments drawn in the initial state.                  *)
(*                                                                         *)
(* A did:key identifier is derived from its public key, so an identifier   *)
(* and its key pair are the same number here; a signature is the triple    *)
(* (key, header, payload) it was made from, which is what Ed25519 over the *)
(* two encoded segments binds.                                             *)
(***************************************************************************)
EXTENDS Integers, FiniteSets, Sequences, TLC

VARIABLES
  files,        \* path -> file content (NoFile when the file does not exist)
  agent,        \* the process's in-memory agent: key store and DID store
  keyImportOk,  \* whether kms-local accepts the seed-derived key
  nextDid,      \* number of key pairs generated so far
  now,          \* the wall clock
  firstDid,     \* the first identifier getFixedIssuer ever returned
  latest,       \* studentId -> the token of its latest successful issuance
  batch,        \* the batchIssue run
  last,         \* the operation that ran last, its inputs and its result
  pending,      \* a call of another process, between its loadVC and its next step
  revokedTokens, \* the tokens whose record a revoke command has revoked
  helper        \* a call of a function of helpers.js: arguments and result

vars == <<files, agent, keyImportOk, nextDid, now, firstDid, latest, batch, last,
          pending, revokedTokens, helper>>

\* what the operations of one process, run to completion, leave alone
aux == <<pending, revokedTokens, helper>>

---------------------------------------------------------------------------
(* Bounds of the model *)

MaxTime == 2
MaxDids == 2

---------------------------------------------------------------------------
(* Values *)

NoDid == 0
NoExp == -1
NoTime == -1

\* the fixed date test.js gives its expiring credential: the clock's origin
PastDate == 0

\* did-jwt accepts a token until NBF_SKEW after its exp (300 s, scaled).
NBF_SKEW == 2

\* batch-issue.js gives every credential one year: beyond the clock's range.
OneYear == MaxTime + NBF_SKEW + 1

UNIVERSITY_ALIAS == "UniversityIssuer"
OTHER_ALIAS == "UnauthorizedIssuer"
Aliases == {UNIVERSITY_ALIAS, OTHER_ALIAS}

StudentIds == {"s1", "s2"}

students == <<"s1", "s2">>

Dids == 1..MaxDids

ISSUER_KEY_FILE == "issuer-key.json"

\* path.join(VCS_DIR, `${studentId}.json`), normalised
VCPath(studentId) ==
  CASE studentId = "s1" -> "credentials/s1.json"
    [] studentId = "s2" -> "credentials/s2.json"
    [] studentId = "./s1" -> "credentials/s1.json"
    [] studentId = "../issuer-key" -> ISSUER_KEY_FILE

Paths == {ISSUER_KEY_FILE, "credentials/s1.json", "credentials/s2.json"}

\* the files of VCS_DIR
VCDirPaths == {"credentials/s1.json", "credentials/s2.json"}

---------------------------------------------------------------------------
(* Tokens *)

GoodHeader == "EdDSA"

Payload(iss, sub, exp, iat) ==
  [iss |-> iss, sub |-> sub, exp |-> exp, iat |-> iat, ok |-> TRUE]

NoPayload == [iss |-> NoDid, sub |-> "", exp |-> NoExp, iat |-> NoTime, ok |-> FALSE]

KeyOf(did) == did

Sign(key, hdr, pl) == [k |-> key, h |-> hdr, p |-> pl]

NoSig == Sign(NoDid, "", NoPayload)

NoToken == [hdr |-> "", pl |-> NoPayload, sig |-> NoSig]

\* agent.createVerifiableCredential({credential, proofFormat: 'jwt'})
CreateVerifiableCredential(issuerDid, pl) ==
  [hdr |-> GoodHeader, pl |-> pl, sig |-> Sign(KeyOf(issuerDid), GoodHeader, pl)]

\* the token decodes, its issuer resolves and the signature is the issuer's
\* over the header and payload as given
SignatureValid(tok) ==
  /\ tok.pl.ok
  /\ tok.hdr = GoodHeader
  /\ tok.pl.iss \in Dids
  /\ tok.sig = Sign(KeyOf(tok.pl.iss), tok.hdr, tok.pl)

\* did-jwt's exp policy, which verifyCredential leaves switched on
JwtExpired(tok, t) == tok.pl.exp # NoExp /\ tok.pl.exp <= t - NBF_SKEW

\* (await agent.verifyCredential({credential, policies})).verified
VerifyCredential(tok, t) == SignatureValid(tok) /\ ~JwtExpired(tok, t)

\* verifyCredential with the errors of the JWT check left uncaught
VerifyCredentialThrows_Uncaught(tok) == tok = NoToken \/ ~SignatureValid(tok)

\* whether agent.verifyCredential({credential: {proof: {jwt}}}) throws: with
\* proof.jwt set the document is a JWT, and what the JWT check throws
\* (format, decoding, resolution, signature, exp) is caught and returned as
\* {verified: false, error}; without it the document is taken for JSON-LD,
\* for which the agent has no verifier
VerifyCredentialThrows(tok) == tok = NoToken

---------------------------------------------------------------------------
(* storage.js *)

NoFile ==
  [kind |-> "none", studentId |-> "", jwt |-> NoToken, issuedAt |-> NoTime,
   status |-> "", did |-> NoDid, priv |-> FALSE]

\* createdAt is left out: nothing reads it
IssuerData(did, priv) ==
  [kind |-> "issuer", studentId |-> "", jwt |-> NoToken, issuedAt |-> NoTime,
   status |-> "", did |-> did, priv |-> priv]

VcData(studentId, jwt, t) ==
  [kind |-> "vc", studentId |-> studentId, jwt |-> jwt, issuedAt |-> t,
   status |-> "active", did |-> NoDid, priv |-> FALSE]

\* saveIssuerKey that starts from an emptied storage directory
saveIssuerKey_Resets(fl, issuerData) ==
  [p \in DOMAIN fl |-> IF p = ISSUER_KEY_FILE THEN issuerData ELSE NoFile]

saveIssuerKey(fl, issuerData) == [fl EXCEPT ![ISSUER_KEY_FILE] = issuerData]

loadIssuerKey(fl) == fl[ISSUER_KEY_FILE]

\* saveVC that leaves an existing record in place
saveVC_KeepsExisting(fl, studentId, jwt, t) ==
  IF fl[VCPath(studentId)] # NoFile
    THEN fl
    ELSE [fl EXCEPT ![VCPath(studentId)] = VcData(studentId, jwt, t)]

\* saveVC that carries the status of the record it overwrites
saveVC_KeepsStatus(fl, studentId, jwt, t) ==
  [fl EXCEPT ![VCPath(studentId)] =
     [VcData(studentId, jwt, t) EXCEPT
        !.status = IF fl[VCPath(studentId)] # NoFile
                     THEN fl[VCPath(studentId)].status ELSE "active"]]

saveVC(fl, studentId, jwt, t) ==
  [fl EXCEPT ![VCPath(studentId)] = VcData(studentId, jwt, t)]

loadVC(fl, studentId) == fl[VCPath(studentId)]

listAllVCs(fl) == {fl[p] : p \in {q \in VCDirPaths : fl[q] # NoFile}}

\* updateVCStatus that builds the record anew around the loaded token
updateVCStatusFiles_FreshRecord(fl, studentId, status) ==
  LET vcData == fl[VCPath(studentId)] IN
  IF vcData # NoFile
    THEN [fl EXCEPT ![VCPath(studentId)] =
            [VcData(studentId, vcData.jwt, NoTime) EXCEPT !.status = status]]
    ELSE fl

\* updateVCStatus that writes a record when there is none
updateVCStatusFiles_Upsert(fl, studentId, status) ==
  [fl EXCEPT ![VCPath(studentId)] =
     [(IF fl[VCPath(studentId)] # NoFile
         THEN fl[VCPath(studentId)]
         ELSE VcData(studentId, NoToken, NoTime)) EXCEPT !.status = status]]

\* the files after updateVCStatus(studentId, status); statusUpdatedAt, which
\* nothing reads, is left out
updateVCStatusFiles(fl, studentId, status) ==
  LET vcData == loadVC(fl, studentId) IN
  IF vcData # NoFile
    THEN [fl EXCEPT ![VCPath(studentId)] =
            [vcData EXCEPT !.status = status]]
    ELSE fl

\* what updateVCStatus(studentId, status) returns
updateVCStatusReturn(fl, studentId) == loadVC(fl, studentId) # NoFile

---------------------------------------------------------------------------
(* agent.js *)

NoIdentifier == [did |-> NoDid, hasKey |-> FALSE]

\* setupAgent(): MemoryKeyStore, MemoryPrivateKeyStore and MemoryDIDStore
\* start empty in every process
setupAgent == [dids |-> [a \in Aliases |-> NoIdentifier]]

\* the identifiers the agent can sign for
Signers(ag) == {ag.dids[a].did : a \in {b \in Aliases : ag.dids[b].hasKey}}

Managed(ag) == {ag.dids[a].did : a \in Aliases} \ {NoDid}

---------------------------------------------------------------------------
(* fixedIssuer.js *)

\* getFixedIssuer(agent): the agent, files and key count it leaves, the
\* identifier it returns (ok) or the error it throws (~ok)
getFixedIssuer(ag, fl, nd) ==
  LET savedIssuer == loadIssuerKey(fl)
      key == keyImportOk
      ag1 == ag  \* the imported seed key is in the key store; no identifier uses it
      existing == ag1.dids[UNIVERSITY_ALIAS]
  IN
  IF savedIssuer # NoFile /\ ~key
    THEN \* didManagerImport with keys: [] stores the identifier without a key
      [agent |-> [ag1 EXCEPT !.dids[UNIVERSITY_ALIAS] =
                     [did |-> savedIssuer.did, hasKey |-> FALSE]],
       files |-> fl, nextDid |-> nd, did |-> savedIssuer.did, ok |-> TRUE]
  ELSE IF savedIssuer # NoFile /\ existing.did # NoDid
    THEN \* didManagerImport threw on keys: [key.kid]; didManagerFind by alias
      [agent |-> ag1, files |-> fl, nextDid |-> nd, did |-> existing.did, ok |-> TRUE]
  ELSE IF existing.did # NoDid
    THEN \* didManagerCreate throws: the alias is taken
      [agent |-> ag1, files |-> fl, nextDid |-> nd, did |-> NoDid, ok |-> FALSE]
  ELSE \* didManagerCreate makes a fresh key pair; saveIssuerKey
      [agent |-> [ag1 EXCEPT !.dids[UNIVERSITY_ALIAS] =
                     [did |-> nd + 1, hasKey |-> TRUE]],
       files |-> saveIssuerKey(fl, IssuerData(nd + 1, FALSE)),
       nextDid |-> nd + 1, did |-> nd + 1, ok |-> TRUE]

---------------------------------------------------------------------------
(* issuer.js *)

\* getOrCreateIssuer(agent): as getFixedIssuer reports it.  exportsPrivate:
\* the key keyManagerGet returns carries privateKeyHex
getOrCreateIssuer(ag, fl, nd, exportsPrivate) ==
  LET savedIssuer == loadIssuerKey(fl)
      existingDIDs == ag.dids[UNIVERSITY_ALIAS]
  IN
  \* keyManagerImport throws without savedIssuer.privateKeyHex, and
  \* didManagerImport throws on keys: [key.kid]; either way the catch runs
  IF savedIssuer # NoFile /\ existingDIDs.did # NoDid
     /\ existingDIDs.did = savedIssuer.did
    THEN [agent |-> ag, files |-> fl, nextDid |-> nd, did |-> existingDIDs.did,
          ok |-> TRUE]
  ELSE IF existingDIDs.did # NoDid
    THEN \* didManagerCreate throws: the alias is taken
      [agent |-> ag, files |-> fl, nextDid |-> nd, did |-> NoDid, ok |-> FALSE]
  ELSE \* didManagerCreate makes a fresh key pair; saveIssuerKey
      [agent |-> [ag EXCEPT !.dids[UNIVERSITY_ALIAS] =
                     [did |-> nd + 1, hasKey |-> TRUE]],
       files |-> saveIssuerKey(fl, IssuerData(nd + 1, exportsPrivate)),
       nextDid |-> nd + 1, did |-> nd + 1, ok |-> TRUE]

\* the token issueStudentCredential signs: credentialSubject.id carries the
\* studentId, the credential id and issuanceDate carry Date.now()
StudentToken(issuerDid, studentId, expiryDate, t) ==
  CreateVerifiableCredential(issuerDid, Payload(issuerDid, studentId, expiryDate, t))

\* issueStudentCredential(agent, issuer, studentData): createVerifiableCredential
\* throws unless the agent holds a signing key of the issuer; then saveVC
issueStudentCredential(ag, fl, issuerDid, studentId, expiryDate, t) ==
  IF issuerDid \in Signers(ag)
    THEN [ok |-> TRUE,
          jwt |-> StudentToken(issuerDid, studentId, expiryDate, t),
          files |-> saveVC(fl, studentId,
                           StudentToken(issuerDid, studentId, expiryDate, t), t)]
    ELSE [ok |-> FALSE, jwt |-> NoToken, files |-> fl]

NoResult ==
  [verified |-> FALSE, error |-> "", has |-> FALSE,
   expired |-> FALSE, statusActive |-> FALSE]

\* verifyStudentCredential without the return on !verification.verified
verifyStudentCredential_IgnoresVerdict(fl, studentId, jwtToken, t) ==
  LET jwt == IF jwtToken # NoToken THEN jwtToken ELSE loadVC(fl, studentId).jwt
      vcData == loadVC(fl, studentId)
  IN
  IF jwtToken = NoToken /\ loadVC(fl, studentId) = NoFile
    THEN [NoResult EXCEPT !.error = "not found"]
  ELSE [verified |-> TRUE, error |-> "", has |-> TRUE,
        expired |-> (jwt.pl.exp # NoExp /\ jwt.pl.exp < t),
        statusActive |-> IF vcData # NoFile THEN vcData.status = "active" ELSE TRUE]

\* verifyStudentCredential(agent, studentId, jwtToken = null) at time t
verifyStudentCredential(fl, studentId, jwtToken, t) ==
  LET jwt == IF jwtToken # NoToken THEN jwtToken ELSE loadVC(fl, studentId).jwt
      vcData == loadVC(fl, studentId)
  IN
  IF jwtToken = NoToken /\ loadVC(fl, studentId) = NoFile
    THEN [NoResult EXCEPT !.error = "not found"]
  ELSE IF ~VerifyCredential(jwt, t)
    THEN [NoResult EXCEPT !.error = "verification failed"]
  ELSE [verified |-> TRUE, error |-> "", has |-> TRUE,
        expired |-> (jwt.pl.exp # NoExp /\ jwt.pl.exp < t),
        statusActive |-> IF vcData # NoFile THEN vcData.status = "active" ELSE TRUE]

\* the token has three segments whose header and payload decode
Decodes(tok) == tok.pl.ok /\ tok.hdr # ""

\* the checks one call of verifyStudentCredential evaluates, in the order it
\* evaluates them: agent.verifyCredential decodes the token, checks the
\* signature and then compares exp with the clock; the function's own
\* expiration and status checks follow a verified answer
verificationSteps(fl, studentId, jwtToken, t) ==
  LET jwt == IF jwtToken # NoToken THEN jwtToken ELSE loadVC(fl, studentId).jwt IN
  IF jwtToken = NoToken /\ loadVC(fl, studentId) = NoFile THEN <<>>
  ELSE IF ~Decodes(jwt) THEN <<"decode">>
  ELSE IF ~SignatureValid(jwt) THEN <<"decode", "signature">>
  ELSE IF JwtExpired(jwt, t) THEN <<"decode", "signature", "expiration">>
  ELSE <<"decode", "signature", "expiration", "status">>

\* what verifyVC of issue.js prints for a result
verifyVCReport(result) ==
  IF ~result.verified THEN "VERIFICATION FAILED" ELSE "CREDENTIAL VERIFIED"

\* whether verifyStudentCredential throws instead of returning a result
verifyStudentCredentialThrows(fl, studentId, jwtToken) ==
  LET jwt == IF jwtToken # NoToken THEN jwtToken ELSE loadVC(fl, studentId).jwt IN
  /\ ~(jwtToken = NoToken /\ loadVC(fl, studentId) = NoFile)
  /\ VerifyCredentialThrows(jwt)

---------------------------------------------------------------------------
(* helpers.js *)

\* the object createVerifiableCredential returns: the credential fields,
\* which repeat the payload, and the proof
VerifiableCredential(jwt) ==
  [body |-> jwt.pl, proof |-> [type |-> "JwtProof2020", jwt |-> jwt]]

exportCredentialJWT(vc) == vc.proof.jwt

\* importCredentialFromJWT that keeps the first two segments only
importCredentialFromJWT_DropsSignature(jwtString) ==
  [body |-> NoPayload, proof |-> [type |-> "", jwt |-> [jwtString EXCEPT !.sig = NoSig]]]

\* { proof: { jwt: jwtString } }: no credential fields, no proof type
importCredentialFromJWT(jwtString) ==
  [body |-> NoPayload, proof |-> [type |-> "", jwt |-> jwtString]]

\* await agent.verifyCredential({ credential }): a credential that carries
\* fields beside its JwtProof2020 proof must repeat the JWT's payload
verifyCredential(credential, t) ==
  LET verified ==
        /\ VerifyCredential(credential.proof.jwt, t)
        /\ credential.proof.type = "JwtProof2020"
             => credential.body = credential.proof.jwt.pl
  IN [verified |-> verified,
      verifiableCredential |-> IF verified THEN credential.proof.jwt.pl ELSE NoPayload]

\* validateIssuer that takes an unverified result for a trusted one
validateIssuer_FailsOpen(verificationResult, trustedIssuers) ==
  IF ~verificationResult.verified
    THEN [valid |-> TRUE, issuer |-> NoDid, reason |-> "Issuer is trusted"]
    ELSE LET issuerDid == verificationResult.verifiableCredential.iss
             isTrusted == issuerDid \in trustedIssuers
         IN [valid |-> isTrusted, issuer |-> issuerDid,
             reason |-> IF isTrusted THEN "Issuer is trusted"
                                     ELSE "Issuer not in trusted list"]

validateIssuer(verificationResult, trustedIssuers) ==
  IF ~verificationResult.verified
    THEN [valid |-> FALSE, issuer |-> NoDid, reason |-> "Credential verification failed"]
    ELSE LET issuerDid == verificationResult.verifiableCredential.iss
             isTrusted == issuerDid \in trustedIssuers
         IN [valid |-> isTrusted, issuer |-> issuerDid,
             reason |-> IF isTrusted THEN "Issuer is trusted"
                                     ELSE "Issuer not in trusted list"]

\* a JavaScript value that is true, false or null
Null == "null"

Bool(b) == IF b THEN "true" ELSE "false"

\* isCredentialExpired with a deadline that is already over when it is reached
isCredentialExpired_NotStrict(verificationResult, t) ==
  IF ~verificationResult.verified
    THEN [expired |-> Null, reason |-> "Credential verification failed"]
    ELSE LET expirationDate == verificationResult.verifiableCredential.exp IN
         IF expirationDate = NoExp
           THEN [expired |-> Bool(FALSE), reason |-> "No expiration date set"]
           ELSE LET expired == expirationDate <= t IN
                [expired |-> Bool(expired),
                 reason |-> IF expired THEN "Expired" ELSE "Still valid"]

\* isCredentialExpired(verificationResult) at time t
isCredentialExpired(verificationResult, t) ==
  IF ~verificationResult.verified
    THEN [expired |-> Null, reason |-> "Credential verification failed"]
    ELSE LET expirationDate == verificationResult.verifiableCredential.exp IN
         IF expirationDate = NoExp
           THEN [expired |-> Bool(FALSE), reason |-> "No expiration date set"]
           ELSE LET expired == expirationDate < t IN
                [expired |-> Bool(expired),
                 reason |-> IF expired THEN "Expired" ELSE "Still valid"]

\* validateSubject(verificationResult, expectedSubjectDid)
validateSubject(verificationResult, expectedSubjectDid) ==
  IF ~verificationResult.verified
    THEN [valid |-> FALSE, reason |-> "Credential verification failed"]
    ELSE LET actualSubject == verificationResult.verifiableCredential.sub
             matches == actualSubject = expectedSubjectDid
         IN [valid |-> matches,
             reason |-> IF matches THEN "Subject matches" ELSE "Subject DID mismatch"]

\* options.expectedSubject left at its default, null
NoSubject == ""

\* validateCredential(agent, vc, {trustedIssuers, expectedSubject,
\* checkExpiration}) at time t
validateCredential(vc, trustedIssuers, expectedSubject, checkExpiration, t) ==
  LET verification == verifyCredential(vc, t)
      issuerCheck == validateIssuer(verification, trustedIssuers)
      subjectCheck == validateSubject(verification, expectedSubject)
      expirationCheck == isCredentialExpired(verification, t)
  IN
  IF ~verification.verified
    THEN [signatureValid |-> FALSE, issuerTrusted |-> Null, subjectValid |-> Null,
          expired |-> Null, errors |-> <<"Signature verification failed">>]
    ELSE [signatureValid |-> TRUE,
          issuerTrusted |-> IF trustedIssuers # {} THEN Bool(issuerCheck.valid) ELSE Null,
          subjectValid |-> IF expectedSubject # NoSubject
                             THEN Bool(subjectCheck.valid) ELSE Null,
          expired |-> IF checkExpiration THEN expirationCheck.expired ELSE Null,
          errors |->
            (IF trustedIssuers # {} /\ ~issuerCheck.valid
               THEN <<issuerCheck.reason>> ELSE <<>>)
            \o (IF expectedSubject # NoSubject /\ ~subjectCheck.valid
                  THEN <<subjectCheck.reason>> ELSE <<>>)
            \o (IF checkExpiration /\ expirationCheck.expired = Bool(TRUE)
                  THEN <<expirationCheck.reason>> ELSE <<>>)]

\* createCredentialPayload(issuer, subject, credentialData): the issuer and
\* the credentialSubject { id: subject.did, ...credentialData }, in which a
\* key of credentialData replaces an earlier key of the same name
createCredentialPayload(issuer, subject, credentialData) ==
  [issuer |-> issuer.did,
   credentialSubject |-> credentialData @@ ("id" :> subject.did)]

\* the credentialData of index.js, and one that brings an id of its own
CredentialDatas ==
  {("authorization" :> "Cross-Chain-Allowed"),
   ("authorization" :> "Cross-Chain-Allowed") @@ ("id" :> "did:key:other")}

NoHelperResult ==
  [valid |-> FALSE, issuer |-> NoDid, reason |-> "",
   imported |-> importCredentialFromJWT(NoToken), verified |-> FALSE,
   reVerified |-> FALSE, expired |-> Null, student |-> NoResult,
   validation |-> [signatureValid |-> FALSE, issuerTrusted |-> Null,
                   subjectValid |-> Null, expired |-> Null, errors |-> <<>>],
   payload |-> [issuer |-> NoDid, credentialSubject |-> ("id" :> "")]]

NoHelper ==
  [op |-> "none", vc |-> VerifiableCredential(NoToken), trustedIssuers |-> {},
   credentialData |-> ("authorization" :> "Cross-Chain-Allowed"),
   expectedSubject |-> NoSubject, checkExpiration |-> TRUE,
   out |-> NoHelperResult]

---------------------------------------------------------------------------
(* The operation that ran last *)

NoOp ==
  [op |-> "none", sid |-> "", tok |-> NoToken, tamper |-> "", ret |-> FALSE,
   did |-> NoDid, req |-> "", before |-> "", res |-> NoResult]

NoBatch == [pc |-> "idle", issuer |-> NoDid, idx |-> 0, results |-> <<>>]

NoPending == [pc |-> "idle", sid |-> "", status |-> "", vcData |-> NoFile]

Init ==
  /\ files = [p \in Paths |-> NoFile]
  /\ agent = setupAgent
  /\ keyImportOk \in BOOLEAN
  /\ nextDid = 0
  /\ now = 0
  /\ firstDid = NoDid
  /\ latest = [s \in StudentIds |-> NoToken]
  /\ batch = NoBatch
  /\ last = NoOp
  /\ pending = NoPending
  /\ revokedTokens = {}
  /\ helper = NoHelper

---------------------------------------------------------------------------
(* Actions *)

\* no result is waiting for its caller
Idle == last.op = "none"

\* the caller has taken the last operation's result
Return ==
  /\ ~Idle
  /\ last' = NoOp
  /\ UNCHANGED <<files, agent, keyImportOk, nextDid, now, firstDid, latest, batch>>
  /\ UNCHANGED aux

\* a command starts: a new process with a fresh agent
SetupAgent ==
  /\ Idle
  /\ batch.pc # "run"
  /\ agent' = setupAgent
  /\ last' = NoOp
  /\ UNCHANGED <<files, keyImportOk, nextDid, now, firstDid, latest, batch>>
  /\ UNCHANGED aux

GetFixedIssuer ==
  LET r == getFixedIssuer(agent, files, nextDid) IN
  /\ Idle
  /\ batch.pc # "run"
  /\ r.nextDid <= MaxDids
  /\ agent' = r.agent
  /\ files' = r.files
  /\ nextDid' = r.nextDid
  /\ firstDid' = IF firstDid = NoDid /\ r.ok THEN r.did ELSE firstDid
  /\ last' = [NoOp EXCEPT !.op = "getFixedIssuer", !.ret = r.ok, !.did = r.did]
  /\ UNCHANGED <<keyImportOk, now, latest, batch>>
  /\ UNCHANGED aux

GetOrCreateIssuer ==
  \E exportsPrivate \in BOOLEAN :
    LET r == getOrCreateIssuer(agent, files, nextDid, exportsPrivate) IN
    /\ Idle
    /\ batch.pc # "run"
    /\ r.nextDid <= MaxDids
    /\ agent' = r.agent
    /\ files' = r.files
    /\ nextDid' = r.nextDid
    /\ firstDid' = IF firstDid = NoDid /\ r.ok THEN r.did ELSE firstDid
    /\ last' = [NoOp EXCEPT !.op = "getOrCreateIssuer", !.ret = r.ok, !.did = r.did]
    /\ UNCHANGED <<keyImportOk, now, latest, batch>>
    /\ UNCHANGED aux

\* agent.didManagerCreate({ alias: 'UnauthorizedIssuer' })
DidManagerCreate ==
  /\ Idle
  /\ batch.pc # "run"
  /\ nextDid < MaxDids
  /\ agent.dids[OTHER_ALIAS].did = NoDid
  /\ agent' = [agent EXCEPT !.dids[OTHER_ALIAS] = [did |-> nextDid + 1, hasKey |-> TRUE]]
  /\ nextDid' = nextDid + 1
  /\ last' = [NoOp EXCEPT !.op = "didManagerCreate", !.ret = TRUE, !.did = nextDid + 1]
  /\ UNCHANGED <<files, keyImportOk, now, firstDid, latest, batch>>
  /\ UNCHANGED aux

IssueStudentCredential(issuerDid, studentId, expiryDate) ==
  LET r == issueStudentCredential(agent, files, issuerDid, studentId, expiryDate, now) IN
  /\ Idle
  /\ batch.pc # "run"
  /\ issuerDid \in Managed(agent)
  /\ files' = r.files
  /\ latest' = IF r.ok THEN [latest EXCEPT ![studentId] = r.jwt] ELSE latest
  /\ last' = [NoOp EXCEPT !.op = "issue", !.sid = studentId, !.ret = r.ok,
                          !.tok = r.jwt, !.did = issuerDid,
                          !.before = loadVC(files, studentId).status]
  /\ UNCHANGED <<agent, keyImportOk, nextDid, now, firstDid, batch>>
  /\ UNCHANGED aux

VerifyStudentCredential(studentId, jwtToken, tamper) ==
  /\ Idle
  /\ last' = [NoOp EXCEPT !.op = "verify", !.sid = studentId, !.tok = jwtToken,
                          !.tamper = tamper,
                          !.ret = ~verifyStudentCredentialThrows(files, studentId, jwtToken),
                          !.res = verifyStudentCredential(files, studentId, jwtToken, now)]
  /\ UNCHANGED <<files, agent, keyImportOk, nextDid, now, firstDid, latest, batch>>
  /\ UNCHANGED aux

UpdateVCStatus(studentId, status) ==
  /\ Idle
  /\ files' = updateVCStatusFiles(files, studentId, status)
  /\ last' = [NoOp EXCEPT !.op = "updateVCStatus", !.sid = studentId, !.req = status,
                          !.ret = updateVCStatusReturn(files, studentId),
                          !.before = loadVC(files, studentId).status]
  /\ UNCHANGED <<agent, keyImportOk, nextDid, now, firstDid, latest, batch>>
  /\ UNCHANGED aux

Tick ==
  /\ Idle
  /\ now < MaxTime
  /\ now' = now + 1
  /\ last' = NoOp
  /\ UNCHANGED <<files, agent, keyImportOk, nextDid, firstDid, latest, batch>>
  /\ UNCHANGED aux

---------------------------------------------------------------------------
(* batch-issue.js *)

\* batchIssue up to the loop: initializeStorage, setupAgent, getFixedIssuer;
\* an error there ends the run (process.exit(1))
BatchStart ==
  LET r == getFixedIssuer(setupAgent, files, nextDid) IN
  /\ Idle
  /\ batch.pc # "run"
  /\ r.nextDid <= MaxDids
  /\ agent' = r.agent
  /\ files' = r.files
  /\ nextDid' = r.nextDid
  /\ firstDid' = IF firstDid = NoDid /\ r.ok THEN r.did ELSE firstDid
  /\ batch' = IF r.ok
                THEN [pc |-> "run", issuer |-> r.did, idx |-> 1, results |-> <<>>]
                ELSE NoBatch
  /\ last' = [NoOp EXCEPT !.op = "batchStart", !.ret = r.ok, !.did = r.did]
  /\ UNCHANGED <<keyImportOk, now, latest>>
  /\ UNCHANGED aux

\* the result batchIssue pushes for one student
BatchResult(studentId, r, issuerDid) ==
  [studentId |-> studentId, success |-> r.ok,
   issuer |-> IF r.ok THEN r.jwt.pl.iss ELSE NoDid]

\* the loop fetching the issuer again, in a fresh agent, for every student
BatchIssueStep_IssuerPerStudent ==
  LET studentId == students[batch.idx]
      g == getFixedIssuer(setupAgent, files, nextDid)
      r == issueStudentCredential(g.agent, g.files, g.did, studentId,
                                  now + OneYear, now)
  IN
  /\ Idle
  /\ batch.pc = "run"
  /\ batch.idx <= Len(students)
  /\ g.nextDid <= MaxDids
  /\ agent' = g.agent
  /\ nextDid' = g.nextDid
  /\ files' = r.files
  /\ batch' = [batch EXCEPT !.idx = batch.idx + 1,
                            !.results = Append(batch.results,
                                               BatchResult(studentId, r, g.did))]
  /\ latest' = IF r.ok THEN [latest EXCEPT ![studentId] = r.jwt] ELSE latest
  /\ last' = [NoOp EXCEPT !.op = "issue", !.sid = studentId, !.ret = r.ok,
                          !.tok = r.jwt, !.did = g.did,
                          !.before = loadVC(files, studentId).status]
  /\ UNCHANGED <<keyImportOk, now, firstDid>>
  /\ UNCHANGED aux

\* the loop without its try/catch: an error of issueStudentCredential ends it
BatchIssueStep_StopsOnError ==
  LET studentId == students[batch.idx]
      r == issueStudentCredential(agent, files, batch.issuer, studentId,
                                  now + OneYear, now)
  IN
  /\ Idle
  /\ batch.pc = "run"
  /\ batch.idx <= Len(students)
  /\ files' = r.files
  /\ batch' = IF r.ok
                THEN [batch EXCEPT !.idx = batch.idx + 1,
                                   !.results = Append(batch.results,
                                                      BatchResult(studentId, r,
                                                                  batch.issuer))]
                ELSE [batch EXCEPT !.idx = Len(students) + 1]
  /\ latest' = IF r.ok THEN [latest EXCEPT ![studentId] = r.jwt] ELSE latest
  /\ last' = [NoOp EXCEPT !.op = "issue", !.sid = studentId, !.ret = r.ok,
                          !.tok = r.jwt, !.did = batch.issuer,
                          !.before = loadVC(files, studentId).status]
  /\ UNCHANGED <<agent, keyImportOk, nextDid, now, firstDid>>
  /\ UNCHANGED aux

\* one pass of the for loop: issue for students[idx], push the result
BatchIssueStep ==
  LET studentId == students[batch.idx]
      r == issueStudentCredential(agent, files, batch.issuer, studentId,
                                  now + OneYear, now)
  IN
  /\ Idle
  /\ batch.pc = "run"
  /\ batch.idx <= Len(students)
  /\ files' = r.files
  /\ batch' = [batch EXCEPT !.idx = batch.idx + 1,
                            !.results = Append(batch.results,
                                               BatchResult(studentId, r, batch.issuer))]
  /\ latest' = IF r.ok THEN [latest EXCEPT ![studentId] = r.jwt] ELSE latest
  /\ last' = [NoOp EXCEPT !.op = "issue", !.sid = studentId, !.ret = r.ok,
                          !.tok = r.jwt, !.did = batch.issuer,
                          !.before = loadVC(files, studentId).status]
  /\ UNCHANGED <<agent, keyImportOk, nextDid, now, firstDid>>
  /\ UNCHANGED aux

\* the summary after the loop
BatchFinish ==
  /\ Idle
  /\ batch.pc = "run"
  /\ batch.idx > Len(students)
  /\ batch' = [batch EXCEPT !.pc = "done"]
  /\ last' = [NoOp EXCEPT !.op = "batchFinish"]
  /\ UNCHANGED <<files, agent, keyImportOk, nextDid, now, firstDid, latest>>
  /\ UNCHANGED aux

\* const issuers = [...new Set(results.filter(r => r.success).map(r => r.issuer))]
BatchIssuers(results) ==
  {results[i].issuer : i \in {j \in 1..Len(results) : results[j].success}}

---------------------------------------------------------------------------
(* updateVCStatus in a second process *)

\* const vcData = loadVC(studentId); without a record the call returns false
UpdateLoad(studentId, status) ==
  LET vcData == loadVC(files, studentId) IN
  /\ Idle
  /\ pending.pc = "idle"
  /\ pending' = IF vcData # NoFile
                  THEN [pc |-> "loaded", sid |-> studentId, status |-> status,
                        vcData |-> vcData]
                  ELSE NoPending
  /\ last' = IF vcData # NoFile
               THEN NoOp
               ELSE [NoOp EXCEPT !.op = "updateVCStatus", !.sid = studentId,
                                 !.req = status, !.ret = FALSE]
  /\ UNCHANGED <<files, agent, keyImportOk, nextDid, now, firstDid, latest, batch,
                 revokedTokens, helper>>

\* vcData.status = status; fs.writeFileSync(filepath, ...); return true
UpdateWrite ==
  /\ Idle
  /\ pending.pc = "loaded"
  /\ files' = [files EXCEPT ![VCPath(pending.sid)] =
                 [pending.vcData EXCEPT !.status = pending.status]]
  /\ pending' = NoPending
  /\ last' = [NoOp EXCEPT !.op = "updateWrite", !.sid = pending.sid,
                          !.req = pending.status, !.ret = TRUE,
                          !.tok = pending.vcData.jwt,
                          !.before = loadVC(files, pending.sid).status]
  /\ UNCHANGED <<agent, keyImportOk, nextDid, now, firstDid, latest, batch,
                 revokedTokens, helper>>

\* verifyStudentCredential(agent, studentId) up to its await: loadVC and
\* jwt = vcData.jwt
VerifyLoad(studentId) ==
  LET vcData == loadVC(files, studentId) IN
  /\ Idle
  /\ pending.pc = "idle"
  /\ pending' = IF vcData # NoFile
                  THEN [pc |-> "verifying", sid |-> studentId, status |-> "",
                        vcData |-> vcData]
                  ELSE NoPending
  /\ last' = IF vcData # NoFile
               THEN NoOp
               ELSE [NoOp EXCEPT !.op = "verify", !.sid = studentId, !.ret = TRUE,
                                 !.res = verifyStudentCredential(files, studentId,
                                                                 NoToken, now)]
  /\ UNCHANGED <<files, agent, keyImportOk, nextDid, now, firstDid, latest, batch,
                 revokedTokens, helper>>

\* the await is over: the verdict on the jwt loaded, then the expiration
\* check and the second loadVC(studentId) for the status
VerifyFinish ==
  /\ Idle
  /\ pending.pc = "verifying"
  /\ pending' = NoPending
  /\ last' = [NoOp EXCEPT !.op = "verifyFinish", !.sid = pending.sid, !.ret = TRUE,
                          !.tok = pending.vcData.jwt,
                          !.before = pending.vcData.status,
                          !.res = verifyStudentCredential(files, pending.sid,
                                                          pending.vcData.jwt, now)]
  /\ UNCHANGED <<files, agent, keyImportOk, nextDid, now, firstDid, latest, batch,
                 revokedTokens, helper>>

---------------------------------------------------------------------------
(* issue.js and cli.js: one process per command *)

\* node issue.js issue <studentId> <name>: an error exits with status 1
IssueVC(studentId) ==
  LET g == getFixedIssuer(setupAgent, files, nextDid)
      r == issueStudentCredential(g.agent, g.files, g.did, studentId,
                                  now + OneYear, now)
  IN
  /\ Idle
  /\ g.nextDid <= MaxDids
  /\ agent' = g.agent
  /\ nextDid' = g.nextDid
  /\ files' = IF g.ok THEN r.files ELSE g.files
  /\ firstDid' = IF firstDid = NoDid /\ g.ok THEN g.did ELSE firstDid
  /\ latest' = IF g.ok /\ r.ok THEN [latest EXCEPT ![studentId] = r.jwt] ELSE latest
  /\ last' = [NoOp EXCEPT !.op = "issueVC", !.sid = studentId,
                          !.ret = (g.ok /\ r.ok),
                          !.tok = IF g.ok THEN r.jwt ELSE NoToken, !.did = g.did,
                          !.before = loadVC(files, studentId).status]
  /\ UNCHANGED <<keyImportOk, now, batch>>
  /\ UNCHANGED aux

\* node issue.js verify <studentId>
VerifyVC(studentId) ==
  LET g == getFixedIssuer(setupAgent, files, nextDid) IN
  /\ Idle
  /\ g.nextDid <= MaxDids
  /\ agent' = g.agent
  /\ nextDid' = g.nextDid
  /\ files' = g.files
  /\ firstDid' = IF firstDid = NoDid /\ g.ok THEN g.did ELSE firstDid
  /\ last' = [NoOp EXCEPT
                !.op = "verifyVC", !.sid = studentId, !.did = g.did,
                !.ret = (g.ok /\ ~verifyStudentCredentialThrows(g.files, studentId, NoToken)),
                !.res = IF g.ok
                          THEN verifyStudentCredential(g.files, studentId, NoToken, now)
                          ELSE NoResult]
  /\ UNCHANGED <<keyImportOk, now, latest, batch>>
  /\ UNCHANGED aux

\* node issue.js list
ListVCs ==
  /\ Idle
  /\ last' = [NoOp EXCEPT !.op = "listVCs", !.ret = TRUE]
  /\ UNCHANGED <<files, agent, keyImportOk, nextDid, now, firstDid, latest, batch>>
  /\ UNCHANGED aux

\* node issue.js revoke <studentId>
RevokeVC(studentId) ==
  /\ Idle
  /\ files' = updateVCStatusFiles(files, studentId, "revoked")
  /\ revokedTokens' = IF updateVCStatusReturn(files, studentId)
                        THEN revokedTokens \cup {loadVC(files, studentId).jwt}
                        ELSE revokedTokens
  /\ last' = [NoOp EXCEPT !.op = "revokeVC", !.sid = studentId, !.req = "revoked",
                          !.ret = updateVCStatusReturn(files, studentId),
                          !.tok = loadVC(files, studentId).jwt,
                          !.before = loadVC(files, studentId).status]
  /\ UNCHANGED <<agent, keyImportOk, nextDid, now, firstDid, latest, batch,
                 pending, helper>>

\* node cli.js verify <jwt>: importCredentialFromJWT, agent.verifyCredential
\* in a try block whose catch prints the error; without a jwt the command
\* prints its usage instead
CliVerifyVC(jwt, kind) ==
  /\ Idle
  /\ jwt # NoToken
  /\ agent' = setupAgent
  /\ last' = [NoOp EXCEPT !.op = "cliVerify", !.tok = jwt, !.tamper = kind,
                          !.ret = TRUE,
                          !.res = IF ~VerifyCredentialThrows(jwt) /\ VerifyCredential(jwt, now)
                                    THEN [NoResult EXCEPT !.verified = TRUE]
                                    ELSE [NoResult EXCEPT !.error = "verification failed"]]
  /\ UNCHANGED <<files, keyImportOk, nextDid, now, firstDid, latest, batch>>
  /\ UNCHANGED aux

---------------------------------------------------------------------------
(* Calls of helpers.js *)

\* the credentials issued to a student by an issuer at the clock's origin
IssuedTokens ==
  {StudentToken(d, s, e, 0) : d \in Dids, s \in StudentIds, e \in {NoExp, PastDate}}

\* credentials as issued, and copies whose token lost its signature
HelperCredentials ==
  {VerifiableCredential(t) : t \in IssuedTokens}
  \cup {VerifiableCredential([t EXCEPT !.sig = NoSig]) : t \in IssuedTokens}

\* a credential, a trusted list and a time of day, before any call
InitHelpers ==
  /\ files = [p \in Paths |-> NoFile]
  /\ agent = setupAgent
  /\ keyImportOk = TRUE
  /\ nextDid = MaxDids
  /\ now \in 0..MaxTime
  /\ firstDid = NoDid
  /\ latest = [s \in StudentIds |-> NoToken]
  /\ batch = NoBatch
  /\ last = NoOp
  /\ pending = NoPending
  /\ revokedTokens = {}
  /\ helper \in {[NoHelper EXCEPT !.vc = c, !.trustedIssuers = T,
                                   !.credentialData = cd,
                                   !.expectedSubject = es,
                                   !.checkExpiration = ce] :
                    c \in HelperCredentials, T \in SUBSET Dids,
                    cd \in CredentialDatas,
                    es \in StudentIds \cup {NoSubject}, ce \in BOOLEAN}

\* validateIssuer(await agent.verifyCredential({ credential: vc }), trustedIssuers)
ValidateIssuer ==
  LET r == validateIssuer(verifyCredential(helper.vc, now), helper.trustedIssuers) IN
  /\ helper.op = "none"
  /\ helper' = [helper EXCEPT !.op = "validateIssuer",
                              !.out.valid = r.valid,
                              !.out.issuer = r.issuer,
                              !.out.reason = r.reason,
                              !.out.verified = verifyCredential(helper.vc, now).verified]
  /\ UNCHANGED <<files, agent, keyImportOk, nextDid, now, firstDid, latest, batch,
                 last, pending, revokedTokens>>

\* index.js: export the token, verify vc, import the token, verify again
ExportImport ==
  LET jwtToken == exportCredentialJWT(helper.vc)
      importedCredential == importCredentialFromJWT(jwtToken)
  IN
  /\ helper.op = "none"
  /\ helper' = [helper EXCEPT !.op = "exportImport",
                              !.out.imported = importedCredential,
                              !.out.verified = verifyCredential(helper.vc, now).verified,
                              !.out.reVerified = verifyCredential(importedCredential, now).verified]
  /\ UNCHANGED <<files, agent, keyImportOk, nextDid, now, firstDid, latest, batch,
                 last, pending, revokedTokens>>

\* isCredentialExpired(await agent.verifyCredential({ credential: vc })), and
\* verifyStudentCredential(agent, studentId, jwt) on the same token at the
\* same time
IsCredentialExpired ==
  LET jwt == exportCredentialJWT(helper.vc)
      verification == verifyCredential(helper.vc, now)
  IN
  /\ helper.op = "none"
  /\ helper' = [helper EXCEPT
                  !.op = "isCredentialExpired",
                  !.out.verified = verification.verified,
                  !.out.expired = isCredentialExpired(verification, now).expired,
                  !.out.student = verifyStudentCredential(files, jwt.pl.sub, jwt, now)]
  /\ UNCHANGED <<files, agent, keyImportOk, nextDid, now, firstDid, latest, batch,
                 last, pending, revokedTokens>>

\* validateCredential(agent, vc, options)
ValidateCredential ==
  /\ helper.op = "none"
  /\ helper' = [helper EXCEPT
                  !.op = "validateCredential",
                  !.out.validation =
                     validateCredential(helper.vc, helper.trustedIssuers,
                                        helper.expectedSubject,
                                        helper.checkExpiration, now)]
  /\ UNCHANGED <<files, agent, keyImportOk, nextDid, now, firstDid, latest, batch,
                 last, pending, revokedTokens>>

\* index.js: createCredentialPayload(issuer, subject, credentialData) for
\* the issuer and the subject of the credential drawn
CreateCredentialPayload ==
  LET issuer == [did |-> helper.vc.proof.jwt.pl.iss]
      subject == [did |-> helper.vc.proof.jwt.pl.sub]
  IN
  /\ helper.op = "none"
  /\ helper' = [helper EXCEPT
                  !.op = "createCredentialPayload",
                  !.out.payload = createCredentialPayload(issuer, subject,
                                                          helper.credentialData)]
  /\ UNCHANGED <<files, agent, keyImportOk, nextDid, now, firstDid, latest, batch,
                 last, pending, revokedTokens>>

---------------------------------------------------------------------------
(* The tokens a caller can present *)

StoredTokens == {files[p].jwt : p \in {q \in VCDirPaths : files[q].kind = "vc"}}

\* the expiryDate a caller passes: none, or the fixed date
ExpiryDates == {NoExp, PastDate}

\* tok with one segment replaced
TamperedHeader(tok) == {[tok EXCEPT !.hdr = "none"]}

TamperedPayload(tok) ==
  ({[tok EXCEPT !.pl.sub = s] : s \in StudentIds}
   \cup {[tok EXCEPT !.pl.exp = NoExp]}) \ {tok}

\* the signature cut away, or made by another key over the same segments
TamperedSignature(tok) ==
  ({[tok EXCEPT !.sig = NoSig]}
   \cup {[tok EXCEPT !.sig = Sign(k, tok.hdr, tok.pl)] : k \in 1..nextDid}) \ {tok}

\* tokens that are no JWT of an issuer: two segments only, a payload that is
\* not base64url JSON, an issuer that does not resolve
MalformedTokens ==
  {[hdr |-> GoodHeader, pl |-> NoPayload, sig |-> NoSig],
   [hdr |-> "", pl |-> NoPayload, sig |-> Sign(NoDid, "", NoPayload)],
   CreateVerifiableCredential(NoDid, Payload(NoDid, "s1", NoExp, 0))}

\* the exported operations, called in any order by successive commands
Command ==
  \/ SetupAgent
  \/ GetFixedIssuer
  \/ DidManagerCreate
  \/ \E d \in Dids, s \in StudentIds, e \in ExpiryDates : IssueStudentCredential(d, s, e)
  \/ \E s \in StudentIds : VerifyStudentCredential(s, NoToken, "")
  \/ \E s \in StudentIds, t \in StoredTokens : VerifyStudentCredential(s, t, "")
  \/ \E t \in StoredTokens :
       \/ \E u \in TamperedHeader(t) : VerifyStudentCredential(t.pl.sub, u, "header")
       \/ \E u \in TamperedPayload(t) : VerifyStudentCredential(t.pl.sub, u, "payload")
       \/ \E u \in TamperedSignature(t) : VerifyStudentCredential(t.pl.sub, u, "signature")
  \/ \E s \in StudentIds, st \in {"active", "revoked"} : UpdateVCStatus(s, st)
  \/ Tick
  \/ Return

Next == Command

Spec == Init /\ [][Next]_vars

\* batch-issue.js runs between revoke commands and restarts
NextBatch ==
  \/ BatchStart
  \/ BatchIssueStep
  \/ BatchFinish
  \/ \E s \in StudentIds : UpdateVCStatus(s, "revoked")
  \/ Tick
  \/ Return

SpecBatch == Init /\ [][NextBatch]_vars

\* batchIssue is one process running straight-line code: each pass of its
\* loop and the summary are taken however often other processes act in
\* between, and every result is handed back
SpecBatchFair ==
  /\ SpecBatch
  /\ SF_vars(BatchIssueStep)
  /\ SF_vars(BatchFinish)
  /\ WF_vars(Return)

\* an updateVCStatus in one process while another process issues and updates
NextRace ==
  \/ GetFixedIssuer
  \/ \E d \in Dids, s \in StudentIds : IssueStudentCredential(d, s, NoExp)
  \/ \E s \in StudentIds, st \in {"active", "revoked"} : UpdateVCStatus(s, st)
  \/ \E s \in StudentIds, st \in {"active", "revoked"} : UpdateLoad(s, st)
  \/ UpdateWrite
  \/ Tick
  \/ Return

SpecRace == Init /\ [][NextRace]_vars

\* a verifyStudentCredential in one process while another process issues
\* and updates
NextVerifyRace ==
  \/ GetFixedIssuer
  \/ \E d \in Dids, s \in StudentIds : IssueStudentCredential(d, s, NoExp)
  \/ \E s \in StudentIds, st \in {"active", "revoked"} : UpdateVCStatus(s, st)
  \/ \E s \in StudentIds : VerifyLoad(s)
  \/ VerifyFinish
  \/ Tick
  \/ Return

SpecVerifyRace == Init /\ [][NextVerifyRace]_vars

\* the studentIds a caller can pass: saveVC and updateVCStatus put any
\* string into the file name
PathIds == StudentIds \cup {"./s1", "../issuer-key"}

\* issuance and status updates under any studentId
NextPaths ==
  \/ GetFixedIssuer
  \/ \E d \in Dids, s \in PathIds : IssueStudentCredential(d, s, NoExp)
  \/ \E s \in PathIds, st \in {"active", "revoked"} : UpdateVCStatus(s, st)
  \/ Tick
  \/ Return

SpecPaths == Init /\ [][NextPaths]_vars

\* the commands of issue.js and cli.js, and verifyStudentCredential given a
\* token, one after another
NextCli ==
  \/ \E s \in StudentIds : IssueVC(s)
  \/ \E s \in StudentIds : VerifyVC(s)
  \/ ListVCs
  \/ \E s \in StudentIds : RevokeVC(s)
  \/ \E t \in StoredTokens \cup revokedTokens :
       \/ VerifyStudentCredential(t.pl.sub, t, "")
       \/ CliVerifyVC(t, "")
       \/ \E u \in TamperedSignature(t) :
            \/ VerifyStudentCredential(t.pl.sub, u, "signature")
            \/ CliVerifyVC(u, "signature")
  \/ \E s \in StudentIds, u \in MalformedTokens :
       VerifyStudentCredential(s, u, "malformed")
  \/ \E u \in MalformedTokens : CliVerifyVC(u, "malformed")
  \/ Tick
  \/ Return

SpecCli == Init /\ [][NextCli]_vars

\* processes that initialise the issuer with either function, and issue
NextIssuer ==
  \/ SetupAgent
  \/ GetFixedIssuer
  \/ GetOrCreateIssuer
  \/ \E d \in Dids, s \in StudentIds : IssueStudentCredential(d, s, NoExp)
  \/ Tick
  \/ Return

SpecIssuer == Init /\ [][NextIssuer]_vars

\* one call of a helper on the arguments drawn
NextHelpers ==
  \/ ValidateIssuer
  \/ ExportImport
  \/ CreateCredentialPayload
  \/ IsCredentialExpired
  \/ ValidateCredential

SpecHelpers == InitHelpers /\ [][NextHelpers]_vars

---------------------------------------------------------------------------
(* Properties *)

\* the token a verification checked: the one given, else the stored one
Presented ==
  IF last.tok # NoToken THEN last.tok ELSE loadVC(files, last.sid).jwt

\* a verification that had a token to check
VerifiedSomeToken ==
  /\ last.op = "verify"
  /\ last.tok # NoToken \/ loadVC(files, last.sid).kind = "vc"

\* C1: a credential issued with the issuer getFixedIssuer returned verifies
\* (verified = TRUE) whenever its stored token is verified unmodified, in the
\* session that issued it and in every later one.
C1_StoredCredentialVerifies ==
  (/\ last.op = "verify"
   /\ last.tok = NoToken
   /\ loadVC(files, last.sid).kind = "vc"
   /\ loadVC(files, last.sid).jwt.pl.iss = firstDid)
  => last.res.verified

\* C2: a token made from an issued one by replacing its header, its payload
\* or its signature is never reported verified.
C2_TamperedNeverVerified ==
  (last.op = "verify" /\ last.tamper # "") => ~last.res.verified

\* C2 witness: the signature of a stored token that verifies as issued was
\* replaced, and the verification of the result has answered.
C2_Witness ==
  /\ last.op = "verify"
  /\ last.tamper = "signature"
  /\ ~last.res.verified
  /\ \E t \in StoredTokens :
       VerifyCredential(t, now) /\ last.tok \in TamperedSignature(t)

\* C3: a token with a valid signature whose expirationDate lies before the
\* verification time is reported verified = TRUE together with expired = TRUE.
C3_ExpiredStillVerified ==
  (/\ VerifiedSomeToken
   /\ SignatureValid(Presented)
   /\ Presented.pl.exp # NoExp
   /\ Presented.pl.exp < now)
  => (last.res.verified /\ last.res.has /\ last.res.expired)

\* C4: verifying the stored token of a revoked record whose signature is
\* valid reports verified = TRUE and statusActive = FALSE.
C4_RevokedStillVerified ==
  (/\ last.op = "verify"
   /\ last.tok = NoToken
   /\ loadVC(files, last.sid).kind = "vc"
   /\ loadVC(files, last.sid).status = "revoked"
   /\ SignatureValid(loadVC(files, last.sid).jwt))
  => (last.res.verified /\ last.res.has /\ ~last.res.statusActive)

\* C5: verified is the validity of the signature and nothing else: whoever
\* the issuer and whatever the subject, a verification reports verified =
\* TRUE exactly when the token is correctly signed by its issuer.
C5_VerifiedIsSignatureValidity ==
  VerifiedSomeToken => (last.res.verified <=> SignatureValid(Presented))

\* C6: every call of getFixedIssuer that returns, in whichever session,
\* returns the identifier the first call returned.
C6_SameIssuerDid ==
  (last.op = "getFixedIssuer" /\ last.ret) => last.did = firstDid

\* C7: in a batchIssue run every successful result carries the identifier
\* the run's one getFixedIssuer call returned, so the successful results
\* name exactly one issuer whenever there is a successful result.
C7_BatchOneIssuer ==
  batch.pc \in {"run", "done"} =>
    /\ \A i \in 1..Len(batch.results) :
         batch.results[i].success => batch.results[i].issuer = batch.issuer
    /\ (\E i \in 1..Len(batch.results) : batch.results[i].success)
         => Cardinality(BatchIssuers(batch.results)) = 1

\* C7 witness: a run has finished with every student's credential issued.
C7_Witness ==
  /\ batch.pc = "done"
  /\ Len(batch.results) = Len(students)
  /\ \A i \in 1..Len(batch.results) : batch.results[i].success

\* C8: the store lists at most one record per studentId, and a listed
\* record holds the token of the latest issuance for its studentId.
C8_OneRecordLatestToken ==
  /\ \A r1, r2 \in listAllVCs(files) : r1.studentId = r2.studentId => r1 = r2
  /\ \A r \in listAllVCs(files) : r.jwt = latest[r.studentId]

\* C8 witness: an issuance has just overwritten a record that held another
\* token, while the other student has a record too.
C8_Witness ==
  /\ last.op = "issue"
  /\ last.ret
  /\ last.before # ""
  /\ Cardinality(listAllVCs(files)) = 2
  /\ \E r \in listAllVCs(files) :
       r.studentId = last.sid /\ r.jwt = last.tok /\ r.jwt.pl.iat > 0

\* C9: right after issueStudentCredential returns, loadVC of its studentId
\* gives a record with status active and the jwt the issuance returned.
C9_IssuedRecordActive ==
  (last.op = "issue" /\ last.ret) =>
    /\ loadVC(files, last.sid).kind = "vc"
    /\ loadVC(files, last.sid).status = "active"
    /\ loadVC(files, last.sid).jwt = last.tok
    /\ last.tok # NoToken

\* C9 witness: the issuance replaced a revoked record.
C9_Witness ==
  /\ last.op = "issue"
  /\ last.ret
  /\ last.before = "revoked"

\* C10: updateVCStatus returns TRUE exactly when a record existed; without
\* one it changes no file, and with one the record then has the status asked.
C10_UpdateStatusResult ==
  [][last'.op = "updateVCStatus" =>
       LET existed == loadVC(files, last'.sid) # NoFile IN
       /\ last'.ret = existed
       /\ ~existed => files' = files
       /\ existed => loadVC(files', last'.sid).status = last'.req]_vars

\* C10 witness: updateVCStatus has returned FALSE for a student without a
\* record while another student's record exists.
C10_Witness ==
  /\ last.op = "updateVCStatus"
  /\ ~last.ret
  /\ loadVC(files, last.sid) = NoFile
  /\ listAllVCs(files) # {}

\* C11: updateVCStatus changes the status of a record and nothing else of
\* it: studentId, credential and jwt, and issuedAt are what they were.
C11_StatusUpdateKeepsRecord ==
  [][(last'.op = "updateVCStatus" /\ last'.ret) =>
       LET old == loadVC(files, last'.sid)
           new == loadVC(files', last'.sid)
       IN
       /\ new.kind = "vc"
       /\ new.studentId = old.studentId
       /\ new.jwt = old.jwt
       /\ new.issuedAt = old.issuedAt
       /\ new = [old EXCEPT !.status = last'.req]]_vars

\* C11 witness: an active record issued after the clock's origin has been
\* revoked.
C11_Witness ==
  /\ last.op = "updateVCStatus"
  /\ last.ret
  /\ last.before = "active"
  /\ loadVC(files, last.sid).status = "revoked"
  /\ loadVC(files, last.sid).issuedAt > 0
  /\ loadVC(files, last.sid).jwt # NoToken

\* C12: no operation removes a record: a studentId that has a record has
\* one after every step.
C12_RecordsNeverRemoved ==
  [][\A s \in StudentIds :
       loadVC(files, s).kind = "vc" => loadVC(files', s).kind = "vc"]_vars

\* C12 witness: a verify command has initialised the issuer anew while a
\* revoked record was in the store, and the record is still there.
C12_Witness ==
  /\ last.op = "verifyVC"
  /\ last.ret
  /\ last.did # firstDid
  /\ loadIssuerKey(files).did = last.did
  /\ loadVC(files, last.sid).kind = "vc"
  /\ loadVC(files, last.sid).status = "revoked"

\* C13: a status update that overlaps other writers of its studentId leaves
\* the record some serial order would leave: the update applied to the
\* record as it is at the write, or, when the record changed after the
\* load, that record itself; either way the token at the write stays.
C13_StatusUpdateSerializable ==
  [][last'.op = "updateWrite" =>
       LET cur == loadVC(files, last'.sid)
           new == loadVC(files', last'.sid)
       IN
       /\ \/ new = [cur EXCEPT !.status = last'.req]
          \/ cur # pending.vcData /\ new = cur
       /\ new.jwt = cur.jwt]_vars

\* C14: a verification that reports verified = TRUE reports statusActive =
\* FALSE whenever the record of the subject named in the token is revoked,
\* whichever studentId the caller passed.
C14_StatusOfTokenSubject ==
  (/\ VerifiedSomeToken
   /\ last.res.verified
   /\ loadVC(files, Presented.pl.sub).kind = "vc"
   /\ loadVC(files, Presented.pl.sub).status = "revoked")
  => ~last.res.statusActive

\* C15: a token with a valid signature, given explicitly for a studentId
\* without a record, is reported verified = TRUE and statusActive = TRUE.
C15_UnknownStatusActive ==
  (/\ last.op = "verify"
   /\ last.tok # NoToken
   /\ SignatureValid(last.tok)
   /\ loadVC(files, last.sid) = NoFile)
  => (last.res.verified /\ last.res.has /\ last.res.statusActive)

\* C16: verifying without a token a studentId that has no record is
\* reported as not found: neither as a verified credential nor as a failed
\* verification.
C16_NotFoundIsDistinct ==
  (/\ last.op = "verify"
   /\ last.tok = NoToken
   /\ loadVC(files, last.sid) = NoFile)
  => /\ last.res.error = "not found"
     /\ verifyVCReport(last.res) \notin {"VERIFICATION FAILED", "CREDENTIAL VERIFIED"}

C18_RevokedStaysRevoked ==
  (/\ last.op = "verify"
   /\ last.tok \in revokedTokens
   /\ last.sid = last.tok.pl.sub
   /\ last.res.verified)
  => ~last.res.statusActive

\* C19: validateIssuer answers valid = TRUE exactly when the verification
\* result is verified and the credential's issuer is in the trusted list;
\* for an unverified result it answers FALSE whatever the list holds.
C19_ValidateIssuerFailsClosed ==
  helper.op = "validateIssuer" =>
    /\ helper.out.valid <=>
         (/\ helper.out.verified
          /\ helper.vc.proof.jwt.pl.iss \in helper.trustedIssuers)
    /\ ~helper.out.verified => ~helper.out.valid
    /\ helper.out.verified <=> VerifyCredential(helper.vc.proof.jwt, now)

\* C19 witness: validateIssuer has answered FALSE for a credential without
\* a valid signature whose issuer is in the trusted list.
C19_Witness ==
  /\ helper.op = "validateIssuer"
  /\ ~helper.out.verified
  /\ helper.vc.proof.jwt.pl.iss \in helper.trustedIssuers
  /\ ~helper.out.valid

\* C20: importing what was exported gives a credential with the token of
\* the issued one, and verifying it gives the verdict of verifying the
\* issued credential.
C20_ExportImportRoundTrip ==
  helper.op = "exportImport" =>
    /\ helper.out.imported.proof.jwt = helper.vc.proof.jwt
    /\ helper.out.reVerified = helper.out.verified

\* C20 witness: an issued credential that verifies has gone through export
\* and import, and the imported one, which is another object, verifies.
C20_Witness ==
  /\ helper.op = "exportImport"
  /\ helper.vc.proof.jwt \in IssuedTokens
  /\ helper.out.imported # helper.vc
  /\ helper.out.verified
  /\ helper.out.reVerified

\* C21: the credential createCredentialPayload builds has credentialSubject.id
\* equal to subject.did whatever credentialData holds, and the credential
\* issueStudentCredential signs names the studentId it was given.
C21_SubjectIdIsSubjects ==
  /\ helper.op = "createCredentialPayload"
       => helper.out.payload.credentialSubject["id"] = helper.vc.proof.jwt.pl.sub
  /\ \A t \in IssuedTokens :
       \E s \in StudentIds : t.pl.sub = s /\ t = StudentToken(t.pl.iss, s, t.pl.exp, t.pl.iat)

\* C22: issuer-key.json never holds the issuer's private key, whichever of
\* getFixedIssuer and getOrCreateIssuer wrote it.
C22_NoPlaintextPrivateKey == loadIssuerKey(files).priv = FALSE

\* C23: a call of getFixedIssuer or getOrCreateIssuer that finds a saved
\* issuer identity leaves that identity in issuer-key.json.
C23_IssuerNeverRegenerated ==
  [][last'.op \in {"getFixedIssuer", "getOrCreateIssuer"}
     /\ loadIssuerKey(files) # NoFile
       => loadIssuerKey(files') = loadIssuerKey(files)]_vars

\* C24: for a verified credential, isCredentialExpired and
\* verifyStudentCredential both report expired exactly when the credential
\* has an expirationDate strictly before the current time: not when it has
\* none, and not when the expirationDate is the current time.
C24_ExpiredIffStrictlyBefore ==
  helper.op = "isCredentialExpired" /\ helper.out.verified
    => LET exp == helper.vc.proof.jwt.pl.exp IN
       /\ helper.out.expired = Bool(exp # NoExp /\ exp < now)
       /\ helper.out.student.verified
       /\ helper.out.student.expired = (exp # NoExp /\ exp < now)

\* C24 witness: a verified credential whose expirationDate has passed is
\* reported expired by both functions.
C24_Witness ==
  /\ helper.op = "isCredentialExpired"
  /\ helper.out.verified
  /\ helper.vc.proof.jwt.pl.exp = PastDate
  /\ now > PastDate
  /\ helper.out.expired = Bool(TRUE)
  /\ helper.out.student.expired

\* C25: a verification evaluates its checks in the order decode, signature,
\* expiration, status and stops at the first that fails: a token that does
\* not decode gets no signature check, and a result with verified = FALSE
\* comes without an evaluation of expiration or status and carries none of
\* the fields of a verified result.
C25_PipelineStopsAtFailure ==
  last.op = "verify"
    => LET steps == verificationSteps(files, last.sid, last.tok, now)
           evaluated == {steps[i] : i \in DOMAIN steps}
       IN
       /\ steps = SubSeq(<<"decode", "signature", "expiration", "status">>,
                         1, Len(steps))
       /\ (last.tok # NoToken /\ ~Decodes(last.tok)) => "signature" \notin evaluated
       /\ ~last.res.verified
            => /\ "expiration" \notin evaluated
               /\ "status" \notin evaluated
               /\ ~last.res.has

\* C26: a call verifyStudentCredential(agent, studentId) that reports
\* verified = TRUE reports the status of the record it took the token from,
\* whatever other processes wrote while it awaited the verdict.
C26_StatusOfVerifiedRecord ==
  last.op = "verifyFinish" /\ last.res.verified
    => last.res.statusActive = (last.before = "active")

\* C27: a verification, by verifyStudentCredential or by the verify command
\* of issue.js, leaves every credential record and issuer-key.json as they
\* were.
C27_VerificationReadOnly ==
  [][last'.op \in {"verify", "verifyVC"} => files' = files]_vars

\* C28: saveVC and updateVCStatus for one studentId leave the record of
\* every other studentId and the saved issuer identity as they were,
\* whatever characters the studentId holds.
C28_OnlyOwnRecord ==
  [][last'.op \in {"issue", "updateVCStatus"}
       => /\ \A s \in PathIds \ {last'.sid, "../issuer-key"} :
               loadVC(files', s) = loadVC(files, s)
          /\ loadIssuerKey(files') = loadIssuerKey(files)]_vars

\* C29: validateCredential on a credential whose signature does not verify
\* answers signatureValid = FALSE, the three other fields null and an error;
\* on one whose signature verifies, errors is empty exactly when no enabled
\* check (a non-empty trustedIssuers, an expectedSubject, checkExpiration)
\* failed, and a check that is not enabled leaves its field null.
C29_ValidateCredentialReport ==
  helper.op = "validateCredential"
    => LET r == helper.out.validation
           tok == helper.vc.proof.jwt
           issuerFailed == helper.trustedIssuers # {}
                           /\ tok.pl.iss \notin helper.trustedIssuers
           subjectFailed == helper.expectedSubject # NoSubject
                            /\ tok.pl.sub # helper.expectedSubject
           expirationFailed == helper.checkExpiration
                               /\ tok.pl.exp # NoExp /\ tok.pl.exp < now
       IN
       /\ ~SignatureValid(tok)
            => /\ ~r.signatureValid
               /\ r.issuerTrusted = Null /\ r.subjectValid = Null /\ r.expired = Null
               /\ r.errors # <<>>
       /\ SignatureValid(tok)
            => /\ (r.errors = <<>>)
                    <=> ~(issuerFailed \/ subjectFailed \/ expirationFailed)
               /\ helper.trustedIssuers = {} => r.issuerTrusted = Null
               /\ helper.expectedSubject = NoSubject => r.subjectValid = Null
               /\ ~helper.checkExpiration => r.expired = Null

\* C30: a batchIssue run attempts the students one by one in list order,
\* pushes one result, successful or failed, for every attempt, and ends:
\* at the end there is one result per student, in list order.
C30_BatchAttemptsAllAndEnds ==
  /\ [](batch.pc \in {"run", "done"}
         => /\ Len(batch.results) = batch.idx - 1
            /\ Len(batch.results) <= Len(students)
            /\ \A i \in 1..Len(batch.results) :
                 batch.results[i].studentId = students[i])
  /\ [](batch.pc = "done"
         => Cardinality({i \in 1..Len(batch.results) : batch.results[i].success})
            + Cardinality({i \in 1..Len(batch.results) : ~batch.results[i].success})
            = Len(students))
  /\ (batch.pc = "run" ~> batch.pc = "done")

\* C30 witness: a run has ended whose first attempt failed and whose later
\* students were attempted all the same.
C30_Witness ==
  /\ batch.pc = "done"
  /\ Len(batch.results) = Len(students)
  /\ ~batch.results[1].success
  /\ batch.results[Len(students)].studentId = students[Len(students)]

====
